---- MODULE Spec2Model ----
(***************************************************************************)
(* Generational arena of the `bees` crate (bees/src/lib.rs): the global    *)
(* generation counter, the thread-local generation -> cell side index,     *)
(* arenas of Generational<T> slots and the liveness-checked Ref<T>.         *)
(***************************************************************************)
EXTENDS Integers, FiniteSets, Sequences, TLC

\* ---- bounds ----
NumArenas == 2      \* arenas created with Allocation::new
ArenaLen == 2       \* len of the first arena
OtherLen == 1       \* len of every other arena
GenLimit == 3       \* the counter and NonZeroU64 range over 0..GenLimit-1 (stands for 2^64)
MaxVal == 2         \* payloads are 1..MaxVal
MaxRefs == 1        \* references the program keeps hold of
MaxProj == 1        \* (parent, field reference) pairs the program keeps hold of
NumThreads == 3     \* threads that call db::gen directly
MaxCalls == 5       \* calls of db::gen those threads make in all

Arenas == 1..NumArenas
Threads == 1..NumThreads
len(a) == IF a = 1 THEN ArenaLen ELSE OtherLen
Indices(a) == 0..(len(a) - 1)
Cells == {c \in Arenas \X (0..ArenaLen) : c[2] \in Indices(c[1])}
Gens == 1..(GenLimit - 1)        \* NonZeroU64
Payloads == 1..MaxVal
WholeValue == 0                  \* payload locator of the slot's whole value
FieldA == 1                      \* payload locator of a field of the slot's value

VARIABLES GEN, OBJECT_DB, values, refs, projs, retired, ret, threads, fetched

vars == <<GEN, OBJECT_DB, values, refs, projs, retired, ret, threads, fetched>>

\* threads: where each thread that calls db::gen directly stands, and the value
\* its fetch_add returned; fetched: the values returned by the fetch_adds of
\* those calls, in the order of the atomic increments (a history).
genvars == <<threads, fetched>>

\* ---- Option<T>, Option<(NonZeroU64, T)> ----
NoValue == 0
NoPair == [some |-> FALSE, gen |-> 0, value |-> 0]

SomePair(g, v) == [some |-> TRUE, gen |-> g, value |-> v]

\* ---- a thread outside db::gen ----
Idle == [pc |-> "idle", val |-> 0, pos |-> 0]

\* ---- Ref<T> ----
NoRef == [gen_ptr |-> <<0, 0>>, gen |-> 0, value |-> <<0, 0, 0>>]

Ref(cell, g, loc) == [gen_ptr |-> cell, gen |-> g, value |-> loc]

\* ---- Generational<T> ----
\* `init` tracks the MaybeUninit storage: TRUE while it owns a value that has
\* neither been moved out (ptr::read) nor dropped; `value` is the bits in it.
new_empty == [gen |-> 0, value |-> NoValue, init |-> FALSE]

is_full(slot) == slot.gen # 0

gen_ptr(a, i) == <<a, i>>

\* Mutant: the payload pointer of the first slot of the slice.
value_ptr_first(a, i) == <<a, 0, WholeValue>>

value_ptr(a, i) == <<a, i, WholeValue>>

alloc(n) == [i \in 0..(n - 1) |-> new_empty]

\* ---- the side index (hashbrown map NonZeroU64 -> *mut u64) ----
EmptyDb == [k \in {} |-> <<0, 0>>]

\* Mutant: the entry is left in the index.
db_remove_nothing(db, g) == db

db_remove(db, g) == [k \in (DOMAIN db) \ {g} |-> db[k]]

db_insert(db, g, cell) == [k \in (DOMAIN db) \cup {g} |-> IF k = g THEN cell ELSE db[k]]

\* ---- writes through &self of a slot (self.gen.set, self.value_ptr().write) ----
\* Mutant: the write lands in the first slot of the slice.
store_first(vals, a, i, slot) == [vals EXCEPT ![a][0] = slot]

store(vals, a, i, slot) == [vals EXCEPT ![a][i] = slot]

\* ---- Generational::replace ----
\* The result: the new slots and side index, the Option<T> returned, whether
\* the call panicked ("Reused generation"), and whether it read (moved out) a
\* value the storage no longer owned.
replace(vals, db, a, i, new) ==
    LET self == vals[a][i]
        full == is_full(self)
        db1 == IF full THEN db_remove(db, self.gen) ELSE db
        old == IF full THEN self.value ELSE NoValue
        moved == IF full THEN [self EXCEPT !.init = FALSE] ELSE self
        stale == full /\ ~self.init
    IN  IF new.some
        THEN IF new.gen \in DOMAIN db1
             THEN [values |-> store(vals, a, i, moved), db |-> db1,
                   old |-> old, panic |-> TRUE, stale |-> stale]
             ELSE [values |-> store(vals, a, i,
                                     [gen |-> new.gen, value |-> new.value, init |-> TRUE]),
                   db |-> db_insert(db1, new.gen, gen_ptr(a, i)),
                   old |-> old, panic |-> FALSE, stale |-> stale]
        ELSE [values |-> store(vals, a, i, [moved EXCEPT !.gen = 0]), db |-> db1,
              old |-> old, panic |-> FALSE, stale |-> stale]

\* ---- Ref::is_alive (against the slots `vals`, and against the current ones) ----
is_alive_in(vals, r) == r.gen = vals[r.gen_ptr[1]][r.gen_ptr[2]].gen

is_alive(r) == is_alive_in(values, r)

\* ---- Ref::subfield_unchecked ----
\* Mutant: the field reference captures the slot's generation at projection
\* time (as Allocation::try_get does) instead of the parent's.
subfield_unchecked_regen(self, data) ==
    Ref(self.gen_ptr, values[self.gen_ptr[1]][self.gen_ptr[2]].gen, data)

subfield_unchecked(self, data) == Ref(self.gen_ptr, self.gen, data)

\* ---- what the program holds and what the last call returned ----
\* refs: the references the program has bound (`let elem_1 = alloc.put(..)`);
\* projs: the (parent, field reference) pairs it has bound; retired: the bound
\* references whose slot has since undergone take or dealloc.
AllRefs == refs \cup {p[1] : p \in projs} \cup {p[2] : p \in projs}

\* Every Ref value there is over the cells and generations.
PossibleRefs == {Ref(c, g, <<c[1], c[2], f>>) : c \in Cells, g \in Gens, f \in {WholeValue, FieldA}}

\* The references a call can be made through: the bound ones and the one the
\* last call returned (`alloc.get(i).read()`).
Usable == AllRefs \cup ({ret.ref} \ {NoRef})

\* op: the call; arena, index: the slot it was made on (the arena alone for
\* dealloc, the slot behind the reference for a call through a Ref); out: the
\* Option<T> / T it returned; ref: the Ref it returned; panic: it unwound;
\* dropped: how many stored values it dropped; stale: it moved a value out of
\* storage that no longer owned one.
Outcome(op, a, i, out, r, panic, dropped, stale) ==
    [op |-> op, arena |-> a, index |-> i, out |-> out, ref |-> r, panic |-> panic,
     dropped |-> dropped, stale |-> stale]

Init ==
    /\ GEN = 1
    /\ OBJECT_DB = EmptyDb
    /\ values = [a \in Arenas |-> alloc(len(a))]
    /\ refs = {}
    /\ projs = {}
    /\ retired = {}
    /\ ret = Outcome("new", 0, 0, NoValue, NoRef, FALSE, 0, FALSE)
    /\ threads = [t \in Threads |-> Idle]
    /\ fetched = <<>>

\* ---- &self.values()[index]: the bounds-checked slice index ----
\* Mutant: an index past the end wraps around instead of panicking.
slice_index_wrapping(a, i) == [panic |-> FALSE, index |-> i % len(a)]

slice_index(a, i) == [panic |-> i \notin Indices(a), index |-> i]

\* ---- Allocation::put_with_gen (everything but the counter) ----
put_with_gen(op, a, i, g, v) ==
    IF slice_index(a, i).panic
    THEN /\ ret' = Outcome(op, a, i, NoValue, NoRef, TRUE, 0, FALSE)
         /\ UNCHANGED <<OBJECT_DB, values, refs, projs, retired>>
    ELSE LET slot == slice_index(a, i).index
             res == replace(values, OBJECT_DB, a, slot, SomePair(g, v))
             r == Ref(gen_ptr(a, slot), g, value_ptr(a, slot))
         IN  /\ values' = res.values
             /\ OBJECT_DB' = res.db
             /\ ret' = Outcome(op, a, i, NoValue, IF res.panic THEN NoRef ELSE r,
                               res.panic, IF res.old # NoValue THEN 1 ELSE 0, res.stale)
             /\ UNCHANGED <<refs, projs, retired>>

PutWithGen(a, i, g, v) ==
    /\ put_with_gen("put_with_gen", a, i, g, v)
    /\ UNCHANGED <<GEN, genvars>>

\* ---- db::gen and Allocation::put ----
gen_next(counter) == (counter + 1) % GenLimit

\* Mutant: NonZeroU64::new_unchecked in place of NonZeroU64::new(..).unwrap().
gen_unchecked(counter) == [counter |-> gen_next(counter), value |-> counter, panic |-> FALSE]

\* the counter after the fetch_add, the value it returned, and whether the
\* unwrap of NonZeroU64::new panics
gen(counter) == [counter |-> gen_next(counter), value |-> counter, panic |-> counter = 0]

Put(a, i, v) ==
    LET g == gen(GEN)
    IN  /\ GEN' = g.counter
        /\ UNCHANGED genvars
        /\ IF g.panic
           THEN /\ ret' = Outcome("put", a, i, NoValue, NoRef, TRUE, 0, FALSE)
                /\ UNCHANGED <<OBJECT_DB, values, refs, projs, retired>>
           ELSE put_with_gen("put", a, i, g.value, v)

\* ---- Allocation::take ----
RefsOf(cells) == {r \in AllRefs : r.gen_ptr \in cells}

Take(a, i) ==
    IF slice_index(a, i).panic
    THEN /\ ret' = Outcome("take", a, i, NoValue, NoRef, TRUE, 0, FALSE)
         /\ UNCHANGED <<GEN, OBJECT_DB, values, refs, projs, retired, genvars>>
    ELSE LET slot == slice_index(a, i).index
             res == replace(values, OBJECT_DB, a, slot, NoPair)
         IN  /\ values' = res.values
             /\ OBJECT_DB' = res.db
             /\ retired' = retired \cup RefsOf({<<a, slot>>})
             /\ ret' = Outcome("take", a, i, res.old, NoRef, FALSE, 0, res.stale)
             /\ UNCHANGED <<GEN, refs, projs, genvars>>

\* ---- Allocation::try_get / Allocation::get ----
try_get_in(vals, a, i) ==
    LET slot == vals[a][i]
    IN  IF is_full(slot) THEN Ref(gen_ptr(a, i), slot.gen, value_ptr(a, i)) ELSE NoRef

try_get(a, i) == try_get_in(values, a, i)

AllocGet(op, a, i) ==
    LET ix == slice_index(a, i)
        r == IF ix.panic THEN NoRef ELSE try_get(a, ix.index)
        panic == ix.panic \/ (op = "get" /\ r = NoRef)
    IN  /\ ret' = Outcome(op, a, i, NoValue, r, panic, 0, FALSE)
        /\ UNCHANGED <<GEN, OBJECT_DB, values, refs, projs, retired, genvars>>

TryGet(a, i) == AllocGet("try_get", a, i)

Get(a, i) == AllocGet("get", a, i)

\* ---- Allocation::dealloc (db::dealloc does nothing) ----
RECURSIVE dealloc_from(_, _, _, _)
dealloc_from(vals, db, a, i) ==
    IF i \notin Indices(a)
    THEN [values |-> vals, db |-> db, dropped |-> 0, stale |-> FALSE]
    ELSE LET res == replace(vals, db, a, i, NoPair)
             rest == dealloc_from(res.values, res.db, a, i + 1)
         IN  [values |-> rest.values, db |-> rest.db,
              dropped |-> rest.dropped + (IF res.old # NoValue THEN 1 ELSE 0),
              stale |-> rest.stale \/ res.stale]

Dealloc(a) ==
    LET res == dealloc_from(values, OBJECT_DB, a, 0)
    IN  /\ values' = res.values
        /\ OBJECT_DB' = res.db
        /\ retired' = retired \cup RefsOf({c \in Cells : c[1] = a})
        /\ ret' = Outcome("dealloc", a, 0, NoValue, NoRef, FALSE, res.dropped, res.stale)
        /\ UNCHANGED <<GEN, refs, projs, genvars>>

\* ---- Ref::try_get / try_read / read ----
NoPtr == <<0, 0, 0>>

\* Mutant: get_unchecked in place of the liveness-checked try_get.
ref_get_unchecked_in(vals, r) == r.value

ref_try_get_in(vals, r) == IF is_alive_in(vals, r) THEN r.value ELSE NoPtr

ref_try_get(r) == ref_try_get_in(values, r)

try_read_in(vals, r) ==
    LET ptr == ref_try_get_in(vals, r)
    IN  IF ptr = NoPtr THEN NoValue ELSE vals[ptr[1]][ptr[2]].value

RefRead(op, r) ==
    LET out == try_read_in(values, r)
    IN  /\ ret' = Outcome(op, r.gen_ptr[1], r.gen_ptr[2], out, NoRef, out = NoValue /\ op = "read", 0, FALSE)
        /\ UNCHANGED <<GEN, OBJECT_DB, values, refs, projs, retired, genvars>>

TryRead(r) == RefRead("try_read", r)

Read(r) == RefRead("read", r)

\* ---- Ref::try_write / write ----
\* Mutant: the write lands in the first slot of the slice.
ptr_write_first(vals, ptr, v) ==
    [vals EXCEPT ![ptr[1]][0] = [@ EXCEPT !.value = v, !.init = TRUE]]

\* ptr.write(value)
ptr_write(vals, ptr, v) ==
    [vals EXCEPT ![ptr[1]][ptr[2]] = [@ EXCEPT !.value = v, !.init = TRUE]]

RefWrite(op, r, v) ==
    LET ptr == ref_try_get(r)
    IN  IF ptr = NoPtr
        THEN /\ ret' = Outcome(op, r.gen_ptr[1], r.gen_ptr[2], NoValue, NoRef,
                               op = "write", 0, FALSE)
             /\ UNCHANGED <<GEN, OBJECT_DB, values, refs, projs, retired, genvars>>
        ELSE LET slot == values[ptr[1]][ptr[2]]
             IN  /\ values' = ptr_write(values, ptr, v)
                 /\ ret' = Outcome(op, r.gen_ptr[1], r.gen_ptr[2], slot.value, NoRef,
                                   FALSE, 0, ~slot.init)
                 /\ UNCHANGED <<GEN, OBJECT_DB, refs, projs, retired, genvars>>

TryWrite(r, v) == RefWrite("try_write", r, v)

Write(r, v) == RefWrite("write", r, v)

\* ---- Ref::subfield_unchecked called directly, and the subfield! macro ----
field_of(ptr) == <<ptr[1], ptr[2], FieldA>>

KeepProj(keep, r, f) ==
    IF keep /\ r \in refs /\ Cardinality(projs \cup {<<r, f>>}) <= MaxProj
    THEN projs \cup {<<r, f>>}
    ELSE projs

SubfieldUnchecked(r, keep) ==
    LET f == subfield_unchecked(r, field_of(r.value))
    IN  /\ ret' = Outcome("subfield_unchecked", r.gen_ptr[1], r.gen_ptr[2], NoValue, f, FALSE, 0, FALSE)
        /\ projs' = KeepProj(keep, r, f)
        /\ UNCHANGED <<GEN, OBJECT_DB, values, refs, retired, genvars>>

\* get_for_macro calls get(), which panics on a dead reference
Subfield(r, keep) ==
    LET ptr == ref_try_get(r)
        f == subfield_unchecked(r, field_of(ptr))
    IN  /\ ret' = Outcome("subfield", r.gen_ptr[1], r.gen_ptr[2], NoValue, IF ptr = NoPtr THEN NoRef ELSE f,
                          ptr = NoPtr, 0, FALSE)
        /\ projs' = IF ptr = NoPtr THEN projs ELSE KeepProj(keep, r, f)
        /\ UNCHANGED <<GEN, OBJECT_DB, values, refs, retired, genvars>>

\* ---- the caller binds the reference the last call returned ----
Hold ==
    /\ ret.ref # NoRef
    /\ Cardinality(refs \cup {ret.ref}) <= MaxRefs
    /\ refs' = refs \cup {ret.ref}
    /\ UNCHANGED <<GEN, OBJECT_DB, values, projs, retired, ret, genvars>>

\* ---- the arena API on every slot, written through the reference just returned ----
Next ==
    \/ \E a \in Arenas, v \in Payloads : \E i \in Indices(a) : Put(a, i, v)
    \/ \E a \in Arenas, g \in Gens, v \in Payloads : \E i \in Indices(a) : PutWithGen(a, i, g, v)
    \/ \E a \in Arenas : \E i \in Indices(a) : Take(a, i)
    \/ \E a \in Arenas : \E i \in Indices(a) : TryGet(a, i)
    \/ \E a \in Arenas : \E i \in Indices(a) : Get(a, i)
    \/ \E a \in Arenas : Dealloc(a)
    \/ \E r \in Usable, v \in Payloads : Write(r, v)

Spec == Init /\ [][Next]_vars

\* ---- the same API on the first slot of every arena, with references bound
\* and used later, and one payload ----
NextRefs ==
    \/ \E a \in Arenas : Put(a, 0, 1)
    \/ \E a \in Arenas, g \in Gens : PutWithGen(a, 0, g, 1)
    \/ \E a \in Arenas : Take(a, 0)
    \/ \E a \in Arenas : TryGet(a, 0)
    \/ \E a \in Arenas : Dealloc(a)
    \/ Hold
    \/ \E r \in Usable : TryRead(r)
    \/ \E r \in Usable : Read(r)
    \/ \E r \in Usable : TryWrite(r, 1)
    \/ \E r \in Usable, keep \in BOOLEAN : SubfieldUnchecked(r, keep)
    \/ \E r \in Usable, keep \in BOOLEAN : Subfield(r, keep)

SpecRefs == Init /\ [][NextRefs]_vars

\* ---- one arena whose references are bound, written through and read, with
\* every payload ----
NextWrite ==
    \/ \E i \in Indices(1), v \in Payloads : Put(1, i, v)
    \/ \E i \in Indices(1), g \in Gens, v \in Payloads : PutWithGen(1, i, g, v)
    \/ \E i \in Indices(1) : Take(1, i)
    \/ \E i \in Indices(1) : Get(1, i)
    \/ Hold
    \/ \E r \in Usable, v \in Payloads : TryWrite(r, v)
    \/ \E r \in Usable, v \in Payloads : Write(r, v)
    \/ \E r \in Usable : TryRead(r)
    \/ \E r \in Usable : Read(r)

SpecWrite == Init /\ [][NextWrite]_vars

\* ---- db::gen called from several threads: the fetch_add on the one global
\* counter is atomic, the unwrap of NonZeroU64::new is local to the thread ----
MaxCounter == GenLimit - 1

GenFetch(t) ==
    LET g == gen(GEN)
    IN  /\ threads[t].pc = "idle"
        /\ Len(fetched) < MaxCalls
        /\ GEN' = g.counter
        /\ fetched' = Append(fetched, g.value)
        /\ threads' = [threads EXCEPT ![t] = [pc |-> "unwrap", val |-> g.value,
                                              pos |-> Len(fetched) + 1]]
        /\ UNCHANGED <<OBJECT_DB, values, refs, projs, retired, ret>>

GenReturn(t) ==
    LET panic == gen(threads[t].val).panic
    IN  /\ threads[t].pc = "unwrap"
        /\ threads' = [threads EXCEPT ![t] = Idle]
        /\ ret' = Outcome("gen", 0, 0, IF panic THEN NoValue ELSE threads[t].val, NoRef,
                          panic, 0, FALSE)
        /\ UNCHANGED <<GEN, OBJECT_DB, values, refs, projs, retired, fetched>>

NextGen ==
    \/ \E t \in Threads : GenFetch(t)
    \/ \E t \in Threads : GenReturn(t)

SpecGen == Init /\ [][NextGen]_vars

\* ---- the arena API called with every index up to and including len(),
\* one payload ----
AnyIndex(a) == 0..len(a)

NextIndex ==
    \/ \E a \in Arenas : \E i \in AnyIndex(a) : Put(a, i, 1)
    \/ \E a \in Arenas, g \in Gens : \E i \in AnyIndex(a) : PutWithGen(a, i, g, 1)
    \/ \E a \in Arenas : \E i \in AnyIndex(a) : Take(a, i)
    \/ \E a \in Arenas : \E i \in AnyIndex(a) : TryGet(a, i)
    \/ \E a \in Arenas : \E i \in AnyIndex(a) : Get(a, i)

SpecIndex == Init /\ [][NextIndex]_vars

\* ---- MovableRef (gen_ptr, gen, value: Cell<*mut T>) and db::realloc ----
\* No constructor of MovableRef exists in the crate: the methods are applied to
\* every MovableRef value there is over the cells and generations.
PossibleMovableRefs == PossibleRefs

\* Mutant: the generation is read from the slot instead of the record.
force_resolve_prim_regen(self) ==
    Ref(self.gen_ptr, values[self.gen_ptr[1]][self.gen_ptr[2]].gen, self.value)

force_resolve_prim(self) == Ref(self.gen_ptr, self.gen, self.value)

ForceResolvePrim(m) ==
    /\ ret' = Outcome("force_resolve_prim", m.gen_ptr[1], m.gen_ptr[2], NoValue,
                      force_resolve_prim(m), FALSE, 0, FALSE)
    /\ UNCHANGED <<GEN, OBJECT_DB, values, refs, projs, retired, genvars>>

\* todo!() panics with "not yet implemented"
RepairResolvePrim(m) ==
    LET resolved == force_resolve_prim(m)
    IN  /\ ret' = IF is_alive(resolved)
                  THEN Outcome("repair_resolve_prim", m.gen_ptr[1], m.gen_ptr[2], NoValue,
                               resolved, FALSE, 0, FALSE)
                  ELSE Outcome("repair_resolve_prim", m.gen_ptr[1], m.gen_ptr[2], NoValue,
                               NoRef, TRUE, 0, FALSE)
        /\ UNCHANGED <<GEN, OBJECT_DB, values, refs, projs, retired, genvars>>

Realloc(a, size) ==
    /\ ret' = Outcome("realloc", a, size, NoValue, NoRef, TRUE, 0, FALSE)
    /\ UNCHANGED <<GEN, OBJECT_DB, values, refs, projs, retired, genvars>>

NextMovable ==
    \/ \E a \in Arenas : Put(a, 0, 1)
    \/ \E a \in Arenas, g \in Gens : PutWithGen(a, 0, g, 1)
    \/ \E a \in Arenas : Take(a, 0)
    \/ \E m \in PossibleMovableRefs : ForceResolvePrim(m)
    \/ \E m \in PossibleMovableRefs : RepairResolvePrim(m)
    \/ \E a \in Arenas : \E size \in AnyIndex(a) : Realloc(a, size)

SpecMovable == Init /\ [][NextMovable]_vars

\* ---- examples/linked_list.rs: LinkedList<T> nodes in one arena ----
ListLen == 3                     \* Allocation::new(3)
ListArena == 1
ListIndices == 0..(ListLen - 1)

\* LinkedList { value, left: None, right: None }
LinkedList_new(v) == [value |-> v, left |-> NoRef, right |-> NoRef]

\* elem_1, elem_2, elem_3 of main: the references the three puts return, with
\* the generations 1, 2, 3 the counter hands them
elem(i) == Ref(gen_ptr(ListArena, i), i + 1, value_ptr(ListArena, i))

Elems == {elem(i) : i \in ListIndices}

RECURSIVE put_elems(_, _, _)
put_elems(vals, db, i) ==
    IF i \notin ListIndices
    THEN [values |-> vals, db |-> db]
    ELSE LET res == replace(vals, db, ListArena, i, SomePair(elem(i).gen, LinkedList_new(i + 1)))
         IN  put_elems(res.values, res.db, i + 1)

\* main after `let elem_3 = alloc.put(..)`. The list operations make no call
\* of db::gen, so the counter only records the three calls made.
InitList ==
    LET built == put_elems([a \in {ListArena} |-> alloc(ListLen)], EmptyDb, 0)
    IN  /\ GEN = ListLen + 1
        /\ OBJECT_DB = built.db
        /\ values = built.values
        /\ refs = Elems
        /\ projs = {}
        /\ retired = {}
        /\ ret = Outcome("put", ListArena, ListLen - 1, NoValue, elem(ListLen - 1), FALSE, 0, FALSE)
        /\ threads = [t \in Threads |-> Idle]
        /\ fetched = <<>>

\* the generated accessors: <field>_prim_ref is subfield!(self.0, field),
\* <field>() is <field>_prim_ref().read(), set_<field>(v) is
\* <field>_prim_ref().write(v); each panics on a dead node
prim_ref(vals, self, field) ==
    LET ptr == ref_try_get_in(vals, self)
    IN  IF ptr = NoPtr THEN NoRef ELSE subfield_unchecked(self, <<ptr[1], ptr[2], field>>)

get_field(vals, self, field) ==
    LET f == prim_ref(vals, self, field)
        ptr == IF f = NoRef THEN NoPtr ELSE ref_try_get_in(vals, f)
    IN  IF ptr = NoPtr
        THEN [panic |-> TRUE, out |-> NoRef]
        ELSE [panic |-> FALSE, out |-> vals[ptr[1]][ptr[2]].value[ptr[3]]]

set_field(vals, self, field, v) ==
    LET f == prim_ref(vals, self, field)
        ptr == IF f = NoRef THEN NoPtr ELSE ref_try_get_in(vals, f)
    IN  IF ptr = NoPtr
        THEN [panic |-> TRUE, values |-> vals]
        ELSE [panic |-> FALSE, values |-> [vals EXCEPT ![ptr[1]][ptr[2]].value[ptr[3]] = v]]

\* a call made after an earlier one of the same operation panicked is not made
then_set(prev, self, field, v) ==
    IF prev.panic THEN prev ELSE set_field(prev.values, self, field, v)

insert_before(vals, self, right) ==
    LET s1 == set_field(vals, self, "right", right)
        g == IF s1.panic THEN [panic |-> TRUE, out |-> NoRef]
             ELSE get_field(s1.values, right, "left")
        s2 == IF g.panic THEN [panic |-> TRUE, values |-> s1.values]
              ELSE set_field(s1.values, self, "left", g.out)
    IN  then_set(s2, right, "left", self)

\* Mutant: the left neighbour is not told about the new node.
insert_after_no_backlink(vals, self, left) ==
    LET s1 == set_field(vals, self, "left", left)
        g == IF s1.panic THEN [panic |-> TRUE, out |-> NoRef]
             ELSE get_field(s1.values, left, "right")
    IN  IF g.panic THEN [panic |-> TRUE, values |-> s1.values]
        ELSE set_field(s1.values, self, "right", g.out)

insert_after(vals, self, left) ==
    LET s1 == set_field(vals, self, "left", left)
        g == IF s1.panic THEN [panic |-> TRUE, out |-> NoRef]
             ELSE get_field(s1.values, left, "right")
        s2 == IF g.panic THEN [panic |-> TRUE, values |-> s1.values]
              ELSE set_field(s1.values, self, "right", g.out)
    IN  then_set(s2, left, "right", self)

\* if let Some(n) = self.<near>() { n.set_<far>(self.<far>()) }
splice(prev, self, near, far) ==
    IF prev.panic THEN prev
    ELSE LET n == get_field(prev.values, self, near)
             v == get_field(prev.values, self, far)
         IN  IF n.panic THEN [panic |-> TRUE, values |-> prev.values]
             ELSE IF n.out = NoRef THEN prev
             ELSE IF v.panic THEN [panic |-> TRUE, values |-> prev.values]
             ELSE set_field(prev.values, n.out, far, v.out)

remove(vals, self) ==
    LET s1 == splice([panic |-> FALSE, values |-> vals], self, "left", "right")
        s2 == splice(s1, self, "right", "left")
        s3 == then_set(s2, self, "left", NoRef)
    IN  then_set(s3, self, "right", NoRef)

\* iter_right: the nodes yielded, at most `fuel` of them, and whether the
\* iterator ended (returned None) within them; `panic` when right() hit a
\* dead node
RECURSIVE iter_right(_, _, _)
iter_right(vals, curr, fuel) ==
    IF curr = NoRef THEN [yielded |-> <<>>, ended |-> TRUE, panic |-> FALSE]
    ELSE IF fuel = 0 THEN [yielded |-> <<>>, ended |-> FALSE, panic |-> FALSE]
    ELSE LET next == get_field(vals, curr, "right")
         IN  IF next.panic THEN [yielded |-> <<curr>>, ended |-> FALSE, panic |-> TRUE]
             ELSE LET rest == iter_right(vals, next.out, fuel - 1)
                  IN  [yielded |-> <<curr>> \o rest.yielded, ended |-> rest.ended,
                       panic |-> rest.panic]

\* for elem in start.iter_right() { elem.value() }
values_right(vals, start) ==
    LET it == iter_right(vals, start, ListLen + 1)
    IN  [values |-> [k \in DOMAIN it.yielded |-> get_field(vals, it.yielded[k], "value").out],
         ended |-> it.ended /\ ~it.panic]

ListOp(op, self, res) ==
    /\ values' = res.values
    /\ ret' = Outcome(op, self.gen_ptr[1], self.gen_ptr[2], NoValue, NoRef, res.panic, 0, FALSE)
    /\ UNCHANGED <<GEN, OBJECT_DB, refs, projs, retired, genvars>>

InsertBefore(self, right) == ListOp("insert_before", self, insert_before(values, self, right))

InsertAfter(self, left) == ListOp("insert_after", self, insert_after(values, self, left))

Remove(self) == ListOp("remove", self, remove(values, self))

NextList ==
    \/ \E self \in refs, right \in refs : InsertBefore(self, right)
    \/ \E self \in refs, left \in refs : InsertAfter(self, left)
    \/ \E self \in refs : Remove(self)

SpecList == InitList /\ [][NextList]_vars

\* ---- the same list operations, each insertion putting a node that is in no
\* list (it has no link and no node links to it) next to another node ----
is_unlinked(vals, self) ==
    /\ get_field(vals, self, "left").out = NoRef
    /\ get_field(vals, self, "right").out = NoRef
    /\ \A n \in Elems : /\ get_field(vals, n, "left").out # self
                        /\ get_field(vals, n, "right").out # self

InsertUnlinkedBefore(self, right) ==
    /\ self # right
    /\ is_unlinked(values, self)
    /\ InsertBefore(self, right)

InsertUnlinkedAfter(self, left) ==
    /\ self # left
    /\ is_unlinked(values, self)
    /\ InsertAfter(self, left)

NextLinked ==
    \/ \E self \in refs, right \in refs : InsertUnlinkedBefore(self, right)
    \/ \E self \in refs, left \in refs : InsertUnlinkedAfter(self, left)
    \/ \E self \in refs : Remove(self)

SpecLinked == InitList /\ [][NextLinked]_vars

\* ======================= claims =======================

\* C1 (as claimed): death is permanent. Once the slot of a bound reference has
\* undergone take or dealloc, the reference is dead in that state and in every
\* later state, whatever put, put_with_gen, take, get, write and dealloc follow.
C1_DeathIsPermanent == \A r \in retired : ~is_alive(r)

\* C2 (as claimed): the reference returned by put is alive right after the
\* call, and every reference bound earlier for that slot is dead after it.
C2_PutKillsEarlierRefs ==
    [][\A a \in Arenas : \A i \in Indices(a), v \in Payloads :
          (Put(a, i, v) /\ ~ret'.panic) =>
              /\ is_alive_in(values', ret'.ref)
              /\ \A r \in AllRefs : r.gen_ptr = <<a, i>> => ~is_alive_in(values', r)]_vars

\* C3: a field reference derived from r by subfield_unchecked / subfield! is
\* alive exactly when r is, in every later state, also after r's slot was
\* emptied or occupied again.
C3_ProjectionCoupled == \A p \in projs : is_alive(p[2]) = is_alive(p[1])

C3_Witness ==
    \E p \in projs : ~is_alive(p[1]) /\ is_full(values[p[1].gen_ptr[1]][p[1].gen_ptr[2]])

\* C4 (as claimed): subfield! does not validate liveness: on a dead parent it
\* completes without a fatal error and yields a dead field reference.
C4_MacroSkipsLivenessCheck ==
    [][\A r \in Usable, keep \in BOOLEAN :
          (Subfield(r, keep) /\ ~is_alive(r)) =>
              (~ret'.panic /\ ret'.ref # NoRef /\ ~is_alive_in(values', ret'.ref))]_vars

\* C4 (amended): subfield! validates liveness at projection time (get_for_macro
\* calls get()): on a dead parent it fails fatally, returns no reference and
\* changes nothing; on a live parent it returns a live field reference with the
\* parent's generation and generation cell. Only subfield_unchecked skips the
\* check: on a dead parent it completes and yields a dead field reference, and
\* that failure is reported when the result is dereferenced (try_read is
\* absent exactly for a dead reference).
C4_MacroChecksLiveness ==
    [][\A r \in Usable, keep \in BOOLEAN :
          /\ Subfield(r, keep) =>
                IF is_alive(r)
                THEN /\ ~ret'.panic
                     /\ ret'.ref.gen = r.gen
                     /\ ret'.ref.gen_ptr = r.gen_ptr
                     /\ is_alive_in(values', ret'.ref)
                ELSE /\ ret'.panic
                     /\ ret'.ref = NoRef
                     /\ UNCHANGED <<GEN, OBJECT_DB, values, refs, projs, retired, genvars>>
          /\ SubfieldUnchecked(r, keep) =>
                /\ ~ret'.panic
                /\ ret'.ref # NoRef
                /\ is_alive_in(values', ret'.ref) = is_alive(r)
          /\ TryRead(r) => ((ret'.out = NoValue) = ~is_alive(r))]_vars

C4_Witness == ret.op = "subfield" /\ ret.panic

\* C5 (as claimed): put_with_gen(index, g, value) fails fatally exactly when g is
\* the current generation of some occupied slot, the target slot included.
C5_RejectsEveryCarriedGen ==
    [][ret'.op = "put_with_gen" =>
          \A g \in Gens, v \in Payloads :
              PutWithGen(ret'.arena, ret'.index, g, v) =>
                  (ret'.panic <=> \E c \in Cells : values[c[1]][c[2]].gen = g)]_vars

\* C6 (as claimed): no two distinct slots carry the same non-zero generation;
\* two references that are both alive and have equal generations refer to the
\* same slot.
C6_GenerationsUnique ==
    /\ \A c, d \in Cells :
          (c # d /\ values[c[1]][c[2]].gen # 0) => values[c[1]][c[2]].gen # values[d[1]][d[2]].gen
    /\ \A r, q \in PossibleRefs :
          (is_alive(r) /\ is_alive(q) /\ r.gen = q.gen) => r.gen_ptr = q.gen_ptr

\* C7: take(index) on an occupied slot returns the value the slot holds, sets
\* its generation to 0, removes that generation from the side index and leaves
\* every reference to the slot dead; on an empty slot it returns absence and
\* changes no generation, no value and no side-index entry.
C7_Take ==
    [][ret'.op = "take" =>
          LET a == ret'.arena
              i == ret'.index
          IN  IF is_full(values[a][i])
              THEN /\ ret'.out = values[a][i].value
                   /\ ret'.out # NoValue
                   /\ values'[a][i].gen = 0
                   /\ values[a][i].gen \notin DOMAIN OBJECT_DB'
                   /\ \A r \in PossibleRefs : r.gen_ptr = <<a, i>> => ~is_alive_in(values', r)
              ELSE /\ ret'.out = NoValue
                   /\ values' = values
                   /\ OBJECT_DB' = OBJECT_DB]_vars

C7_Witness == ret.op = "take" /\ ret.out # NoValue /\ ~ret.stale

\* C8: put, put_with_gen and take on one slot leave the generation, the value
\* and the liveness of every reference of every other slot, of the same arena
\* and of the others, unchanged.
C8_OtherSlotsUntouched ==
    [][ret'.op \in {"put", "put_with_gen", "take"} =>
          /\ \A c \in Cells \ {<<ret'.arena, ret'.index>>} :
                values'[c[1]][c[2]] = values[c[1]][c[2]]
          /\ \A r \in PossibleRefs :
                r.gen_ptr # <<ret'.arena, ret'.index>> =>
                    is_alive_in(values', r) = is_alive(r)]_vars

\* take(0) on the first arena has emptied its slot while the second slot and
\* the other arena's slot stay occupied
C8_Witness ==
    /\ ret.op = "take"
    /\ ret.arena = 1
    /\ ret.index = 0
    /\ ret.out # NoValue
    /\ is_full(values[1][1])
    /\ is_full(values[2][0])

\* C9 (as claimed): dealloc() leaves every slot of the arena with generation 0,
\* drops every occupant exactly once, removes the arena's generations from the
\* side index, leaves every reference into the arena dead and leaves the other
\* arenas unchanged.
C9_DeallocDropsEachOnce ==
    [][ret'.op = "dealloc" =>
          LET a == ret'.arena
          IN  /\ \A i \in Indices(a) : values'[a][i].gen = 0
              /\ ret'.dropped = Cardinality({i \in Indices(a) : is_full(values[a][i])})
              /\ ~ret'.stale
              /\ \A i \in Indices(a) : values[a][i].gen \notin DOMAIN OBJECT_DB'
              /\ \A r \in PossibleRefs : r.gen_ptr[1] = a => ~is_alive_in(values', r)
              /\ \A b \in Arenas \ {a} : values'[b] = values[b]]_vars

\* What get(i).read() gives against the slots `vals`: absence if the slot is empty.
GetRead(vals, a, i) ==
    IF try_get_in(vals, a, i) = NoRef THEN NoValue ELSE try_read_in(vals, try_get_in(vals, a, i))

\* C10: after put(i, v), get(i).read() is v, and stays so over operations on
\* other slots; try_get(i) is absent exactly when slot i is empty and get(i)
\* is fatal exactly then; the reference get/try_get return carries the slot's
\* current generation and is the reference the put that filled the slot
\* returned, so the two are alive in the same states.
C10_RoundTrip ==
    [][/\ (ret'.op \in {"put", "put_with_gen"} /\ ~ret'.panic) =>
             \A v \in Payloads :
                 (IF ret'.op = "put"
                  THEN Put(ret'.arena, ret'.index, v)
                  ELSE \E g \in Gens : PutWithGen(ret'.arena, ret'.index, g, v)) =>
                     /\ ret'.ref # NoRef
                     /\ try_get_in(values', ret'.arena, ret'.index) = ret'.ref
                     /\ is_alive_in(values', ret'.ref)
                     /\ GetRead(values', ret'.arena, ret'.index) = v
       /\ ret'.op \in {"put", "put_with_gen", "take"} =>
             \A c \in Cells \ {<<ret'.arena, ret'.index>>} :
                 GetRead(values', c[1], c[2]) = GetRead(values, c[1], c[2])
       /\ ret'.op \in {"try_get", "get"} =>
             LET a == ret'.arena
                 i == ret'.index
             IN  /\ (ret'.ref = NoRef) = ~is_full(values[a][i])
                 /\ ret'.panic = (ret'.op = "get" /\ ~is_full(values[a][i]))
                 /\ ret'.ref # NoRef =>
                       /\ ret'.ref.gen = values[a][i].gen
                       /\ ret'.ref.gen_ptr = <<a, i>>
                       /\ is_alive_in(values', ret'.ref)
                       /\ try_read_in(values', ret'.ref) = values[a][i].value]_vars

C10_Witness == ret.op = "get" /\ ~ret.panic /\ ret.ref # NoRef /\ is_alive(ret.ref)

\* C11: on a live reference write / try_write return the value stored just
\* before the call (so a second write returns what the first one stored),
\* afterwards every live reference to the same payload reads the written value,
\* and the call changes no slot's generation, no side-index entry and the
\* liveness of no reference.
C11_Write ==
    [][ret'.op \in {"write", "try_write"} =>
        \A r \in Usable, v \in Payloads :
            (is_alive(r) /\ RefWrite(ret'.op, r, v)) =>
                /\ ~ret'.panic
                /\ ret'.out # NoValue
                /\ ret'.out = try_read_in(values, r)
                /\ (ret.op \in {"write", "try_write"} /\ ret.out # NoValue
                        /\ <<ret.arena, ret.index>> = r.gen_ptr)
                     => ret'.out = values[ret.arena][ret.index].value
                /\ \A q \in PossibleRefs :
                     (q.value = r.value /\ is_alive_in(values', q)) => try_read_in(values', q) = v
                /\ \A c \in Cells : values'[c[1]][c[2]].gen = values[c[1]][c[2]].gen
                /\ OBJECT_DB' = OBJECT_DB
                /\ \A q \in PossibleRefs : is_alive_in(values', q) = is_alive(q)]_vars

\* a write through a bound live reference that returned the earlier value and
\* stored a different one
C11_Witness ==
    /\ ret.op = "write" /\ ~ret.panic /\ ret.out # NoValue
    /\ \E r \in refs : /\ r.gen_ptr = <<ret.arena, ret.index>>
                       /\ is_alive(r)
                       /\ try_read_in(values, r) # ret.out

\* C12 (as claimed): dangling access is always detected. try_get, try_read and
\* try_write return absence exactly when the reference is dead, get, read and
\* write are fatal exactly then, a rejected write changes nothing; and a bound
\* reference whose slot was emptied and has just been filled again by put can
\* neither read nor modify the new occupant.
C12_DanglingDetected ==
    [][/\ \A q \in PossibleRefs : (ref_try_get(q) = NoPtr) <=> ~is_alive(q)
       /\ ret'.op = "try_read" =>
            \A r \in Usable : TryRead(r) =>
                (~ret'.panic /\ ((ret'.out = NoValue) <=> ~is_alive(r)))
       /\ ret'.op = "read" =>
            \A r \in Usable : Read(r) =>
                ((ret'.panic <=> ~is_alive(r)) /\ ((ret'.out = NoValue) <=> ~is_alive(r)))
       /\ ret'.op = "try_write" =>
            \A r \in Usable, v \in Payloads : TryWrite(r, v) =>
                /\ ~ret'.panic
                /\ (ret'.out = NoValue) <=> ~is_alive(r)
                /\ ~is_alive(r) => (values' = values /\ OBJECT_DB' = OBJECT_DB)
       /\ ret'.op = "write" =>
            \A r \in Usable, v \in Payloads : Write(r, v) =>
                /\ ret'.panic <=> ~is_alive(r)
                /\ ~is_alive(r) => (values' = values /\ OBJECT_DB' = OBJECT_DB)
       /\ (ret.op = "put" /\ ~ret.panic) =>
            \A r \in retired :
                r.gen_ptr = <<ret.arena, ret.index>> =>
                    /\ TryRead(r) => ret'.out = NoValue
                    /\ \A v \in Payloads : TryWrite(r, v) =>
                           (ret'.out = NoValue /\ values' = values)]_vars


\* C13 (as claimed): gen() never returns the same value twice and its values
\* increase strictly in the order of the atomic increments, whatever the
\* interleaving of the calling threads: of two calls that return, the one that
\* incremented later returns the greater value.
C13_StrictlyIncreasing ==
    \A i, j \in DOMAIN fetched :
        (i < j /\ ~gen(fetched[i]).panic /\ ~gen(fetched[j]).panic) => fetched[i] < fetched[j]

\* C14 (as claimed): exhaustion of the w-bit counter is fatal and it never
\* wraps. gen() never returns 0, every call that increments after the counter
\* has reached its maximum fails fatally, and no call returns a value a call
\* before it has returned.
C14_ExhaustionIsFatal ==
    [][\A t \in Threads : GenReturn(t) =>
          /\ ~ret'.panic => ret'.out # 0
          /\ (\E i \in 1..(threads[t].pos - 1) : fetched[i] = MaxCounter) => ret'.panic
          /\ ~ret'.panic => \A i \in 1..(threads[t].pos - 1) : fetched[i] # ret'.out]_vars

\* C18 (as claimed): every generation gen() issues is at least 2, and 0 is the
\* generation of empty slots only: a slot with generation 0 holds no value and
\* no reference handed out carries 0.
C18_IssuedAtLeastTwo ==
    [][/\ (ret'.op = "put" /\ ~ret'.panic /\ \E v \in Payloads : Put(ret'.arena, ret'.index, v))
            => ret'.ref.gen >= 2
       /\ \A c \in Cells : values'[c[1]][c[2]].gen = 0 => ~values'[c[1]][c[2]].init
       /\ ret'.ref # NoRef => ret'.ref.gen # 0]_vars

\* C18 (amended): every generation gen() issues is at least 1 (the counter
\* starts at 1 and put hands the slot the counter's value before the
\* increment), and 0 is the generation of empty slots only.
C18_IssuedAtLeastOne ==
    [][/\ (ret'.op = "put" /\ ~ret'.panic /\ \E v \in Payloads : Put(ret'.arena, ret'.index, v))
            => (ret'.ref.gen >= 1 /\ ret'.ref.gen = GEN)
       /\ \A c \in Cells : values'[c[1]][c[2]].gen = 0 => ~values'[c[1]][c[2]].init
       /\ ret'.ref # NoRef => ret'.ref.gen # 0]_vars

\* the first put of the process: it was handed generation 1
C18_Witness == ret.op = "put" /\ ~ret.panic /\ ret.ref.gen = 1 /\ is_alive(ret.ref)

\* C15: put, put_with_gen, take, try_get and get called with index >= len()
\* fail fatally, and the failed call changes no slot's generation or value and
\* no side-index entry.
C15_OutOfRangeIsFatal ==
    [][\A a \in Arenas : \A i \in AnyIndex(a) \ Indices(a) :
          (\/ Put(a, i, 1)
           \/ \E g \in Gens : PutWithGen(a, i, g, 1)
           \/ Take(a, i)
           \/ TryGet(a, i)
           \/ Get(a, i))
          => /\ ret'.panic
             /\ ret'.ref = NoRef /\ ret'.out = NoValue
             /\ \A c \in Cells : /\ values'[c[1]][c[2]].gen = values[c[1]][c[2]].gen
                                 /\ values'[c[1]][c[2]].value = values[c[1]][c[2]].value
             /\ OBJECT_DB' = OBJECT_DB]_vars

\* an out-of-range put on an arena whose slots are occupied
C15_Witness ==
    /\ ret.op = "put" /\ ret.panic
    /\ ret.index \notin Indices(ret.arena)
    /\ \A i \in Indices(ret.arena) : is_full(values[ret.arena][i])
    /\ GEN # 1

\* C16: the unfinished paths fail explicitly. force_resolve_prim returns the
\* reference with the recorded generation cell, generation and payload
\* location and never fails, live or stale; repair_resolve_prim returns exactly
\* that reference when it is alive and otherwise ends in a fatal failure with
\* no reference returned; db::realloc always fails fatally. None of them
\* changes a slot or the side index.
C16_UnfinishedPathsFail ==
    [][/\ ret'.op = "force_resolve_prim" =>
            \A m \in PossibleMovableRefs : ForceResolvePrim(m) =>
                /\ ~ret'.panic
                /\ ret'.ref.gen_ptr = m.gen_ptr /\ ret'.ref.gen = m.gen /\ ret'.ref.value = m.value
                /\ is_alive_in(values', ret'.ref) = (values[m.gen_ptr[1]][m.gen_ptr[2]].gen = m.gen)
       /\ ret'.op = "repair_resolve_prim" =>
            \A m \in PossibleMovableRefs : RepairResolvePrim(m) =>
                IF values[m.gen_ptr[1]][m.gen_ptr[2]].gen = m.gen
                THEN /\ ~ret'.panic
                     /\ ret'.ref.gen_ptr = m.gen_ptr /\ ret'.ref.gen = m.gen
                     /\ ret'.ref.value = m.value
                     /\ is_alive_in(values', ret'.ref)
                ELSE ret'.panic /\ ret'.ref = NoRef
       /\ ret'.op = "realloc" => ret'.panic /\ ret'.ref = NoRef
       /\ ret'.op \in {"force_resolve_prim", "repair_resolve_prim", "realloc"} =>
            (values' = values /\ OBJECT_DB' = OBJECT_DB /\ GEN' = GEN)]_vars

\* repair_resolve_prim on a stale MovableRef whose slot has been filled again
C16_Witness ==
    /\ ret.op = "repair_resolve_prim" /\ ret.panic
    /\ is_full(values[ret.arena][ret.index])

\* the links of the three nodes of main, as <<left, right>> per node
Links(vals) == [i \in ListIndices |-> <<vals[ListArena][i].value.left, vals[ListArena][i].value.right>>]

\* no node linked; elem_1 <-> elem_2; elem_1 <-> elem_2 <-> elem_3
Unlinked == [i \in ListIndices |-> <<NoRef, NoRef>>]

Linked12 == [Unlinked EXCEPT ![0] = <<NoRef, elem(1)>>, ![1] = <<elem(0), NoRef>>]

Linked123 == [Linked12 EXCEPT ![1] = <<elem(0), elem(2)>>, ![2] = <<elem(1), NoRef>>]

\* C17: the linked-list scenario of main. With the nodes 1, 2, 3 put at 0, 1,
\* 2 and unlinked, elem_2.insert_after(elem_1) and then
\* elem_3.insert_after(elem_2) link them so that the traversal to the right
\* from elem_1 ends and yields 1, 2, 3; elem_2.remove() then leaves a list whose
\* traversal from elem_1 ends and yields 1, 3, and elem_2 with no left and no
\* right link.
C17_LinkedListScenario ==
    [][/\ (Links(values) = Unlinked /\ InsertAfter(elem(1), elem(0)))
            => (~ret'.panic /\ Links(values') = Linked12)
       /\ (Links(values) = Linked12 /\ InsertAfter(elem(2), elem(1)))
            => /\ ~ret'.panic
               /\ Links(values') = Linked123
               /\ values_right(values', elem(0)) = [values |-> <<1, 2, 3>>, ended |-> TRUE]
       /\ (Links(values) = Linked123 /\ Remove(elem(1)))
            => /\ ~ret'.panic
               /\ values_right(values', elem(0)) = [values |-> <<1, 3>>, ended |-> TRUE]
               /\ Links(values')[1] = <<NoRef, NoRef>>]_vars

\* the end of the scenario: elem_2 has just been removed from between elem_1
\* and elem_3
C17_Witness ==
    /\ ret.op = "remove" /\ ret.index = 1 /\ ~ret.panic
    /\ Links(values) = [Unlinked EXCEPT ![0] = <<NoRef, elem(2)>>, ![2] = <<elem(0), NoRef>>]
    /\ values_right(values, elem(0)).values = <<1, 3>>

\* C19 (as claimed): slot occupancy. In every reachable state, those after a
\* put_with_gen that failed with a duplicate generation included, a slot's
\* generation is non-zero exactly when its storage owns an initialized value
\* that has been neither moved out nor dropped, and no call moves a value out of
\* storage that no longer owns one (no value is dropped twice or read after it
\* was moved out).
C19_SlotOccupancy ==
    /\ \A c \in Cells : is_full(values[c[1]][c[2]]) <=> values[c[1]][c[2]].init
    /\ ~ret.stale

\* C20 (as claimed): side-index consistency. In every reachable state, those
\* after a put_with_gen that failed with a duplicate generation included, the
\* keys of the side index are exactly the non-zero generations the slots carry,
\* and each key maps to the generation cell of the slot that carries it.
C20_SideIndexConsistent ==
    /\ DOMAIN OBJECT_DB = {values[c[1]][c[2]].gen : c \in Cells} \ {0}
    /\ \A g \in DOMAIN OBJECT_DB : values[OBJECT_DB[g][1]][OBJECT_DB[g][2]].gen = g

\* C21 (as claimed): doubly-linked consistency. Starting from unlinked live
\* nodes, after any sequence of insert_after, insert_before and remove, each
\* insertion putting a currently unlinked node next to a node of a list, for
\* all live nodes a and b: a.right is b if and only if b.left is a.
C21_DoublyLinked ==
    \A a \in Elems, b \in Elems :
        (is_alive(a) /\ is_alive(b)) =>
            ((get_field(values, a, "right").out = b) <=> (get_field(values, b, "left").out = a))

====
